---------------------------- MODULE Spec2Model ----------------------------
(***************************************************************************)
(* dump_rtprio: a single pass over the identifier space that probes seven  *)
(* kernel interfaces per identifier and prints one CSV row per identifier  *)
(* that did not vanish.  Model of src/src/dump_rtprio.cpp.                  *)
(*                                                                         *)
(* Text is a sequence of one-character strings (a longer string stands for *)
(* an opaque run of ordinary characters, such as a path).  The kernel side *)
(* (what each query answers) is the environment; the program side is       *)
(* translated statement by statement.                                      *)
(***************************************************************************)
EXTENDS Integers, Sequences, FiniteSets, TLC

(***************************************************************************)
(* Bounds of the model.                                                    *)
(***************************************************************************)
\* largest value the pid_max file may hold
MaxPidMax == 2
\* largest processor count sysconf may answer
MaxNProc == 2

(***************************************************************************)
(* Text helpers.                                                           *)
(***************************************************************************)
DigitChars == <<"0", "1", "2", "3", "4", "5", "6", "7", "8", "9">>

IsDigit(c) == \E k \in 1..10 : DigitChars[k] = c

DigitValue(c) == CHOOSE d \in 0..9 : DigitChars[d + 1] = c

\* printf("%d") and the kernel's own decimal rendering of an integer
RECURSIVE FormatD(_)
FormatD(n) ==
    IF n < 0 THEN <<"-">> \o FormatD(-n)
    ELSE IF n < 10 THEN <<DigitChars[n + 1]>>
    ELSE FormatD(n \div 10) \o <<DigitChars[(n % 10) + 1]>>

\* the characters strtol skips before a number
IsSpace(c) == c \in {" ", "\t", "\n", "\r", "\f"}

RECURSIVE SkipSpace(_)
SkipSpace(s) ==
    IF s # <<>> /\ IsSpace(Head(s)) THEN SkipSpace(Tail(s)) ELSE s

RECURSIVE DigitRun(_)
DigitRun(s) ==
    IF s # <<>> /\ IsDigit(Head(s)) THEN <<Head(s)>> \o DigitRun(Tail(s))
    ELSE <<>>

RECURSIVE DecimalValue(_)
DecimalValue(ds) ==
    IF ds = <<>> THEN 0
    ELSE 10 * DecimalValue(SubSeq(ds, 1, Len(ds) - 1)) + DigitValue(ds[Len(ds)])

\* std::stoi: skips leading white space, takes an optional sign and the
\* longest run of digits; with no digit it throws (ok = FALSE).
stoi(s) ==
    LET t    == SkipSpace(s)
        sgn  == t # <<>> /\ Head(t) \in {"-", "+"}
        u    == IF sgn THEN Tail(t) ELSE t
        ds   == DigitRun(u)
    IN  IF ds = <<>> THEN [ok |-> FALSE, val |-> 0]
        ELSE [ok |-> TRUE,
              val |-> IF sgn /\ Head(t) = "-" THEN 0 - DecimalValue(ds)
                      ELSE DecimalValue(ds)]

\* strip(): drops leading, then trailing ' ', '\t', '\n'.  front()/back() of
\* an empty view is undefined in the source; Head/Len of the empty sequence
\* is an evaluation error here, so a run that reached it would be reported.
IsBlank(c) == c \in {" ", "\t", "\n"}

RECURSIVE LeftStrip(_)
LeftStrip(s) == IF IsBlank(Head(s)) THEN LeftStrip(Tail(s)) ELSE s

RECURSIVE RightStrip(_)
RightStrip(s) ==
    IF IsBlank(s[Len(s)]) THEN RightStrip(SubSeq(s, 1, Len(s) - 1)) ELSE s

strip(s) == RightStrip(LeftStrip(s))

\* std::string_view::starts_with
StartsWith(s, p) == Len(s) >= Len(p) /\ SubSeq(s, 1, Len(p)) = p

\* std::string_view::remove_prefix(n)
RemovePrefix(s, n) == SubSeq(s, n + 1, Len(s))

RECURSIVE Flatten(_)
Flatten(ss) == IF ss = <<>> THEN <<>> ELSE Head(ss) \o Flatten(Tail(ss))

(***************************************************************************)
(* The records the kernel presents.  A statistics record is the line       *)
(* "pid (comm) f2 f3 f4 ...\n"; a status record is a list of               *)
(* "Label:\tvalue\n" lines.                                                *)
(***************************************************************************)
StatText(rec) ==
    FormatD(rec.pid) \o <<" ", "(">> \o rec.comm \o <<")">>
      \o Flatten([k \in 1..Len(rec.rest) |-> <<" ">> \o rec.rest[k]])
      \o <<"\n">>

\* field k (counted from 0) of a statistics record, as the kernel wrote it
StatField(rec, k) ==
    IF k = 0 THEN FormatD(rec.pid)
    ELSE IF k = 1 THEN <<"(">> \o rec.comm \o <<")">>
    ELSE rec.rest[k - 1]

StatFieldCount(rec) == 2 + Len(rec.rest)

NameLabel == <<"N", "a", "m", "e", ":">>
PidLabel  == <<"P", "i", "d", ":">>
PPidLabel == <<"P", "P", "i", "d", ":">>
TgidLabel == <<"T", "g", "i", "d", ":">>
StateLabel == <<"S", "t", "a", "t", "e", ":">>

StatusLine(label, value) == label \o <<"\t">> \o value \o <<"\n">>

StatusText(rec) ==
    << StatusLine(NameLabel, rec.name),
       StatusLine(StateLabel, <<"S", " ", "(", "sleeping", ")">>),
       StatusLine(TgidLabel, FormatD(rec.tgid)),
       StatusLine(PidLabel, FormatD(rec.pid)),
       StatusLine(PPidLabel, FormatD(rec.ppid)) >>

(***************************************************************************)
(* Scheduling policy numbers of <sched.h>, as policy_string switches on    *)
(* them.                                                                   *)
(***************************************************************************)
SCHED_OTHER == 0
SCHED_FIFO == 1
SCHED_RR == 2
SCHED_BATCH == 3
SCHED_IDLE == 5
SCHED_DEADLINE == 6

\* a policy number no case of policy_string names
PolicyUnnamed == SCHED_DEADLINE + 1

(***************************************************************************)
(* The processes the environment may present under identifier id.  Each    *)
(* is what the seven queries answer when they succeed.                     *)
(***************************************************************************)
InitComm == <<"i", "n", "i", "t">>
\* a command name holding a space and balanced parentheses
NestedComm == <<"a", " ", "(", "b", ")">>
\* a command name holding a space and an unbalanced parenthesis
OddComm == <<"a", ")", " ", "b">>

FullStat(id, comm, pp, s) ==
    [pid |-> id, comm |-> comm, rest |-> <<<<"S">>, FormatD(pp), FormatD(s), <<"0">>>>]

InitProc(id) ==
    [ mask |-> {0, 1}, prio |-> 0, policy |-> SCHED_OTHER, nice |-> 0,
      has_exe |-> TRUE, exe |-> <<"/bin/init">>,
      stat |-> FullStat(id, InitComm, 0, 1),
      status |-> [name |-> InitComm, tgid |-> id, pid |-> id, ppid |-> 0] ]

\* a real-time kernel thread: no executable link, one CPU, negative niceness
KThreadProc(id) ==
    [ mask |-> {0}, prio |-> 5, policy |-> SCHED_FIFO, nice |-> -1,
      has_exe |-> FALSE, exe |-> <<>>,
      stat |-> FullStat(id, NestedComm, 2, 0),
      status |-> [name |-> NestedComm, tgid |-> id, pid |-> id, ppid |-> 2] ]

\* a thread of another process, under a policy the program has no name for
ThreadProc(id) ==
    [ mask |-> {1}, prio |-> 0, policy |-> PolicyUnnamed, nice |-> 10,
      has_exe |-> TRUE, exe |-> <<"/bin/a">>,
      stat |-> FullStat(id, <<"a">>, 1, 12),
      status |-> [name |-> <<"a">>, tgid |-> id + 1, pid |-> id, ppid |-> 1] ]

Procs(id) ==
    { InitProc(id), KThreadProc(id), ThreadProc(id),
      \* a command name with an unbalanced parenthesis
      [InitProc(id) EXCEPT !.stat = FullStat(id, OddComm, 0, 1),
                           !.status.name = OddComm],
      \* a statistics record cut after its field 4, which no space ends
      [InitProc(id) EXCEPT !.stat.rest = <<<<"S">>, FormatD(0), FormatD(1)>>],
      \* a statistics record cut after its field 3
      [InitProc(id) EXCEPT !.stat.rest = <<<<"S">>, FormatD(0)>>],
      \* records of another identifier
      [InitProc(id) EXCEPT !.stat.pid = id + 1],
      [InitProc(id) EXCEPT !.status.pid = id + 1],
      \* the parent changed between the two records
      [InitProc(id) EXCEPT !.status.ppid = 1],
      \* two more of the policies the program names; an affinity set without a CPU
      [InitProc(id) EXCEPT !.policy = SCHED_RR, !.mask = {}],
      [InitProc(id) EXCEPT !.policy = SCHED_DEADLINE] }

NoProc == [mask |-> {}, prio |-> 0, policy |-> 0, nice |-> 0, has_exe |-> FALSE,
           exe |-> <<>>, stat |-> FullStat(0, <<>>, 0, 0),
           status |-> [name |-> <<>>, tgid |-> 0, pid |-> 0, ppid |-> 0]]

(***************************************************************************)
(* Pure functions of the program.                                          *)
(***************************************************************************)
\* (mutant) policy_string without its SCHED_RR case
policy_string_no_rr(policy) ==
    CASE policy = SCHED_OTHER    -> <<"OTHER">>
      [] policy = SCHED_BATCH    -> <<"BATCH">>
      [] policy = SCHED_IDLE     -> <<"IDLE">>
      [] policy = SCHED_FIFO     -> <<"FIFO">>
      [] policy = SCHED_DEADLINE -> <<"DEADLINE">>
      [] OTHER                   -> <<"???">>

policy_string(policy) ==
    CASE policy = SCHED_OTHER    -> <<"OTHER">>
      [] policy = SCHED_BATCH    -> <<"BATCH">>
      [] policy = SCHED_IDLE     -> <<"IDLE">>
      [] policy = SCHED_FIFO     -> <<"FIFO">>
      [] policy = SCHED_RR       -> <<"RR">>
      [] policy = SCHED_DEADLINE -> <<"DEADLINE">>
      [] OTHER                   -> <<"???">>

\* CPU_ZERO, then CPU_SET(i) for i < nproc
AllCpusOf(nproc) == 0..(nproc - 1)

\* (mutant) the label chosen by inclusion in place of equality
cpu_mask_string_subset(mask, all) == IF mask \subseteq all THEN <<"all">> ELSE <<"???">>

\* CPU_EQUAL(&cpu_mask, &all_cpus) ? "all" : "???"
cpu_mask_string(mask, all) == IF mask = all THEN <<"all">> ELSE <<"???">>

\* the header printf
HeaderLine ==
    << <<"exe">>, <<"name">>, <<"cpumask">>, <<"policy">>, <<"nice">>,
       <<"priority">>, <<"tid">>, <<"pid">>, <<"ppid">>, <<"sid">>, <<"cpu">> >>

\* (mutant) the row printf with the tid and pid arguments exchanged
RowLineTidPidSwapped(e, n, maskstr, polstr, nv, prio, id, pg, pp, s) ==
    << e, n, maskstr, polstr, FormatD(nv), FormatD(prio), FormatD(pg),
       FormatD(id), FormatD(pp), FormatD(s) >>

\* the row printf: "%s,%s,%s,%s,%d,%d,%d,%d,%d,%d\n", as its fields
RowLine(e, n, maskstr, polstr, nv, prio, id, pg, pp, s) ==
    << e, n, maskstr, polstr, FormatD(nv), FormatD(prio), FormatD(id),
       FormatD(pg), FormatD(pp), FormatD(s) >>

\* (mutant) the loop test with <= for <
LoopCondInclusive(id, pmax) == id <= pmax

\* (mutant) the loop step that forgets to increment
NextIdStuck(id) == id

\* (mutant) the loop test with the comparison turned round
LoopCondInverted(id, pmax) == id > pmax

\* the loop of main: for (int i = 0; i < pid_max; ++i)
FirstId == 0
LoopCond(id, pmax) == id < pmax
NextId(id) == id + 1

\* (mutant) the vanished test looking for ENOENT
QueryVanishedWrongErrno(result, e) == result = -1 /\ e = "ENOENT"

\* "result == -1 && errno == ESRCH" of the three sched_* readers
QueryVanished(result, e) == result = -1 /\ e = "ESRCH"

\* read_stat's scan of the line: the state after character k-1, from k on
StatScanInit ==
    [field |-> 0, field_start |-> 1, parens |-> 0,
     pid |-> 0, ppid |-> 0, sid |-> 0, threw |-> FALSE]

StatTakeField(st, text) ==
    LET n == stoi(text)
    IN  CASE st.field = 0 -> [st EXCEPT !.pid = n.val, !.threw = ~n.ok]
          [] st.field = 3 -> [st EXCEPT !.ppid = n.val, !.threw = ~n.ok]
          [] st.field = 4 -> [st EXCEPT !.sid = n.val, !.threw = ~n.ok]
          [] OTHER        -> st

RECURSIVE StatScan(_, _, _)
StatScan(buf, k, st) ==
    IF k > Len(buf) \/ st.threw THEN st
    ELSE LET c  == buf[k]
             p1 == IF c = "(" THEN st.parens + 1 ELSE st.parens
         IN  IF p1 > 0
             THEN StatScan(buf, k + 1,
                           [st EXCEPT !.parens = IF c = ")" THEN p1 - 1 ELSE p1])
             ELSE IF c = " "
             THEN LET t == StatTakeField(st, SubSeq(buf, st.field_start, k - 1))
                  IN  StatScan(buf, k + 1,
                               [t EXCEPT !.field = st.field + 1,
                                         !.field_start = k + 1])
             ELSE StatScan(buf, k + 1, st)

ParseStat(buf) == StatScan(buf, 1, StatScanInit)

\* "if (field < 4)" of read_stat
StatTooShort(field) == field < 4

\* read_status's loop over the lines
StatusScanInit ==
    [name |-> <<>>, pid |-> 0, status_ppid |-> 0, pgrp |-> 0, threw |-> FALSE]

StatusTakeLine(st, line) ==
    IF StartsWith(line, NameLabel)
    THEN [st EXCEPT !.name = strip(RemovePrefix(line, Len(NameLabel) + 1))]
    ELSE IF StartsWith(line, PidLabel)
    THEN LET n == stoi(strip(RemovePrefix(line, Len(PidLabel) + 1)))
         IN  [st EXCEPT !.pid = n.val, !.threw = ~n.ok]
    ELSE IF StartsWith(line, PPidLabel)
    THEN LET n == stoi(strip(RemovePrefix(line, Len(PPidLabel) + 1)))
         IN  [st EXCEPT !.status_ppid = n.val, !.threw = ~n.ok]
    ELSE IF StartsWith(line, TgidLabel)
    THEN LET n == stoi(strip(RemovePrefix(line, Len(TgidLabel) + 1)))
         IN  [st EXCEPT !.pgrp = n.val, !.threw = ~n.ok]
    ELSE st

RECURSIVE StatusScan(_, _)
StatusScan(lines, st) ==
    IF lines = <<>> \/ st.threw THEN st
    ELSE StatusScan(Tail(lines), StatusTakeLine(st, Head(lines)))

ParseStatus(lines) == StatusScan(lines, StatusScanInit)

\* What the two record readers make of the records of each process the
\* environment can present: the scans above, worked out once per process.
AllProcs == UNION {Procs(id) : id \in 0..MaxPidMax}
StatParsed == [p \in AllProcs |-> ParseStat(StatText(p.stat))]
StatusParsed == [p \in AllProcs |-> ParseStatus(StatusText(p.status))]

(***************************************************************************)
(* State.  Program: pc (position in main), i, pid_max, all_cpus, the       *)
(* locals of one loop iteration, out (the lines printed), open_files (the  *)
(* FILE* opened and not closed), errno, exit_status (-1 while running).    *)
(* Environment: life, whether identifier i names a process ("unused",      *)
(* "present", "exited"), and proc, that process while it is present.       *)
(* History: producer (the identifier whose iteration printed each row),    *)
(* obs (the outcome of each reader call of this iteration), calls (every   *)
(* reader call so far, as <<identifier, reader>>).                         *)
(***************************************************************************)
VARIABLES pc, i, pid_max, all_cpus, not_there,
          cpu_mask, param, scheduler, exe, nice_value, ppid, sid, pgrp, name,
          out, open_files, errno, exit_status,
          life, proc, producer, obs, calls

locals == <<cpu_mask, param, scheduler, exe, nice_value, ppid, sid, pgrp, name>>
limits == <<pid_max, all_cpus>>
env == <<life, proc>>
vars == <<pc, i, pid_max, all_cpus, not_there, locals, out, open_files, errno,
          exit_status, env, producer, obs, calls>>

Readers == <<"find_cpu_mask", "find_sched_param", "find_scheduler", "find_exe",
             "find_nice_value", "read_stat", "read_status">>

Init ==
    /\ pc = "main"
    /\ i = FirstId
    /\ pid_max = 0
    /\ all_cpus = {}
    /\ not_there = FALSE
    /\ cpu_mask = {}
    /\ param = 0
    /\ scheduler = 0
    /\ exe = <<>>
    /\ nice_value = 0
    /\ ppid = 0
    /\ sid = 0
    /\ pgrp = 0
    /\ name = <<>>
    /\ out = <<>>
    /\ open_files = {}
    /\ errno = "0"
    /\ exit_status = -1
    /\ life = "unused"
    /\ proc = NoProc
    /\ producer = <<>>
    /\ obs = <<>>
    /\ calls = <<>>

\* LOG(FATAL, ...): exit(1).  An uncaught std::runtime_error or
\* std::invalid_argument: std::terminate, abort, status 134.
ExitFatal == 1
ExitAbort == 134

Note(reader, outcome) ==
    /\ obs' = Append(obs, [reader |-> reader, outcome |-> outcome])
    /\ calls' = Append(calls, <<i, reader>>)

(***************************************************************************)
(* main, before the loop.                                                  *)
(***************************************************************************)
main_header ==
    /\ pc = "main"
    /\ out' = Append(out, HeaderLine)
    /\ pc' = "find_pid_max"
    /\ UNCHANGED <<i, limits, not_there, locals, open_files, errno, exit_status,
                   env, producer, obs, calls>>

\* fopen, fscanf("%d"), fclose of /proc/sys/kernel/pid_max
find_pid_max ==
    /\ pc = "find_pid_max"
    /\ \/ \E r \in 1..MaxPidMax :
            /\ pid_max' = r
            /\ pc' = "find_all_cpus"
            /\ UNCHANGED <<open_files, errno, exit_status>>
       \/ \* fopen fails
          /\ errno' = "ENOENT"
          /\ pc' = "fatal"
          /\ exit_status' = ExitFatal
          /\ UNCHANGED <<pid_max, open_files>>
       \/ \* fscanf does not return 1: CHECK_EQ throws with the file open
          /\ open_files' = open_files \cup {"pid_max"}
          /\ pc' = "fatal"
          /\ exit_status' = ExitAbort
          /\ UNCHANGED <<pid_max, errno>>
       \/ \* fclose fails: PCHECK throws
          /\ errno' = "EIO"
          /\ pc' = "fatal"
          /\ exit_status' = ExitAbort
          /\ UNCHANGED <<pid_max, open_files>>
    /\ UNCHANGED <<i, all_cpus, not_there, locals, out, env, producer, obs, calls>>

find_all_cpus ==
    /\ pc = "find_all_cpus"
    /\ \/ \E nproc \in 1..MaxNProc :
            /\ all_cpus' = AllCpusOf(nproc)
            /\ pc' = "for_cond"
            /\ UNCHANGED <<errno, exit_status>>
       \/ \* sysconf answers -1
          /\ errno' = "EINVAL"
          /\ pc' = "fatal"
          /\ exit_status' = ExitFatal
          /\ UNCHANGED all_cpus
    /\ UNCHANGED <<i, pid_max, not_there, locals, out, open_files, env,
                   producer, obs, calls>>

(***************************************************************************)
(* The loop head: the test, and "bool not_there = false".                  *)
(***************************************************************************)
NotThereInit(before) == FALSE

for_cond ==
    /\ pc = "for_cond"
    /\ IF LoopCond(i, pid_max)
       THEN /\ not_there' = NotThereInit(not_there)
            /\ pc' = "find_cpu_mask"
            /\ UNCHANGED exit_status
       ELSE /\ pc' = "done"
            /\ exit_status' = 0
            /\ UNCHANGED not_there
    /\ UNCHANGED <<i, limits, locals, out, open_files, errno, env, producer,
                   obs, calls>>

(***************************************************************************)
(* The environment.  Other processes run while the scan does: before any   *)
(* query the identifier may be given to a new process, and the process     *)
(* holding it may exit.  Within one probe sequence an identifier names at  *)
(* most one process.                                                       *)
(***************************************************************************)
LifeSteps(l, p, id) ==
    CASE l = "unused"  -> {[life |-> "unused", proc |-> NoProc]}
                            \cup {[life |-> "present", proc |-> q] : q \in Procs(id)}
      [] l = "present" -> {[life |-> "present", proc |-> p],
                           [life |-> "exited", proc |-> NoProc]}
      [] OTHER         -> {[life |-> "exited", proc |-> NoProc]}

\* What the kernel answers: ret is the call's return value, err the errno it
\* leaves when it fails, outcome the name the history gives the answer.
sched_getaffinity(l, p) ==
    IF l = "present"
    THEN { [ret |-> 0,  err |-> "0",      val |-> p.mask, outcome |-> "ok"],
           [ret |-> -1, err |-> "EINVAL", val |-> {},     outcome |-> "err"] }
    ELSE { [ret |-> -1, err |-> "ESRCH",  val |-> {},     outcome |-> "esrch"] }

sched_getparam(l, p) ==
    IF l = "present"
    THEN { [ret |-> 0,  err |-> "0",      val |-> p.prio, outcome |-> "ok"],
           [ret |-> -1, err |-> "EINVAL", val |-> 0,      outcome |-> "err"] }
    ELSE { [ret |-> -1, err |-> "ESRCH",  val |-> 0,      outcome |-> "esrch"] }

sched_getscheduler(l, p) ==
    IF l = "present"
    THEN { [ret |-> p.policy, err |-> "0",      outcome |-> "ok"],
           [ret |-> -1,       err |-> "EINVAL", outcome |-> "err"] }
    ELSE { [ret |-> -1,       err |-> "ESRCH",  outcome |-> "esrch"] }

\* readlink("/proc/<i>/exe"): the target's length, or -1.  A process without
\* an executable has no link; an identifier without a process has no
\* directory, or loses its task during the call.
readlink(l, p) ==
    IF l = "present"
    THEN { IF p.has_exe
           THEN [ret |-> 1,  err |-> "0",      val |-> p.exe, outcome |-> "ok"]
           ELSE [ret |-> -1, err |-> "ENOENT", val |-> <<>>,  outcome |-> "ok"],
           [ret |-> -1, err |-> "EACCES", val |-> <<>>, outcome |-> "err"] }
    ELSE { [ret |-> -1, err |-> "ENOENT", val |-> <<>>, outcome |-> "enoent"],
           [ret |-> -1, err |-> "ESRCH",  val |-> <<>>, outcome |-> "esrch"] }

\* getpriority: a niceness (which may be -1), errno untouched; or -1, errno set
getpriority(l, p) ==
    IF l = "present"
    THEN { [ret |-> p.nice, err |-> "0",      outcome |-> "ok"],
           [ret |-> -1,     err |-> "EINVAL", outcome |-> "err"] }
    ELSE { [ret |-> -1,     err |-> "ESRCH",  outcome |-> "esrch"] }

\* errno after a call: set by a failing call, left alone by a successful one
ErrnoAfter(before, res) == IF res.err # "0" THEN res.err ELSE before

\* Opening and reading a record of /proc/<i>.  procfs answers a read with the
\* whole record or with an error; the process may exit between the open and
\* the read ("read_esrch").
RecordOutcomes(l) ==
    IF l = "present" THEN {"ok", "open_err", "read_esrch", "read_err", "close_err"}
    ELSE {"open_enoent"}

RecordErrno(outcome, before) ==
    CASE outcome = "open_enoent" -> "ENOENT"
      [] outcome = "open_err"    -> "EACCES"
      [] outcome = "read_esrch"  -> "ESRCH"
      [] outcome = "read_err"    -> "EIO"
      [] outcome = "close_err"   -> "EIO"
      [] OTHER                   -> before

LifeAfterRecord(l, outcome) == IF outcome = "read_esrch" THEN "exited" ELSE l
ProcAfterRecord(p, outcome) == IF outcome = "read_esrch" THEN NoProc ELSE p

(***************************************************************************)
(* The readers.                                                            *)
(***************************************************************************)
\* (mutant) main calling read_status right after find_nice_value
NextReaderSkipsStat(reader) ==
    CASE reader = "find_cpu_mask"    -> "find_sched_param"
      [] reader = "find_sched_param" -> "find_scheduler"
      [] reader = "find_scheduler"   -> "find_exe"
      [] reader = "find_exe"         -> "find_nice_value"
      [] reader = "find_nice_value"  -> "read_status"
      [] reader = "read_stat"        -> "read_status"
      [] OTHER                       -> "if_not_there"

\* the statement of main's loop body a reader returns to: the next reader's
\* call, or "if (not_there)" after the last
NextReader(reader) ==
    CASE reader = "find_cpu_mask"    -> "find_sched_param"
      [] reader = "find_sched_param" -> "find_scheduler"
      [] reader = "find_scheduler"   -> "find_exe"
      [] reader = "find_exe"         -> "find_nice_value"
      [] reader = "find_nice_value"  -> "read_stat"
      [] reader = "read_stat"        -> "read_status"
      [] OTHER                       -> "if_not_there"

find_cpu_mask ==
    /\ pc = "find_cpu_mask"
    /\ \E e \in LifeSteps(life, proc, i) : \E res \in sched_getaffinity(e.life, e.proc) :
         /\ life' = e.life
         /\ proc' = e.proc
         /\ errno' = ErrnoAfter(errno, res)
         /\ IF QueryVanished(res.ret, errno')
            THEN /\ not_there' = TRUE
                 /\ cpu_mask' = {}
                 /\ pc' = NextReader("find_cpu_mask")
                 /\ UNCHANGED exit_status
            ELSE IF res.ret # 0
            THEN /\ pc' = "fatal"
                 /\ exit_status' = ExitFatal
                 /\ UNCHANGED <<not_there, cpu_mask>>
            ELSE /\ cpu_mask' = res.val
                 /\ pc' = NextReader("find_cpu_mask")
                 /\ UNCHANGED <<not_there, exit_status>>
         /\ Note("find_cpu_mask", res.outcome)
    /\ UNCHANGED <<i, limits, param, scheduler, exe, nice_value, ppid, sid, pgrp, name,
                   out, open_files, producer>>

find_sched_param ==
    /\ pc = "find_sched_param"
    /\ \E e \in LifeSteps(life, proc, i) : \E res \in sched_getparam(e.life, e.proc) :
         /\ life' = e.life
         /\ proc' = e.proc
         /\ errno' = ErrnoAfter(errno, res)
         /\ IF QueryVanished(res.ret, errno')
            THEN /\ not_there' = TRUE
                 /\ param' = 0
                 /\ pc' = NextReader("find_sched_param")
                 /\ UNCHANGED exit_status
            ELSE IF res.ret # 0
            THEN /\ pc' = "fatal"
                 /\ exit_status' = ExitFatal
                 /\ UNCHANGED <<not_there, param>>
            ELSE /\ param' = res.val
                 /\ pc' = NextReader("find_sched_param")
                 /\ UNCHANGED <<not_there, exit_status>>
         /\ Note("find_sched_param", res.outcome)
    /\ UNCHANGED <<i, limits, cpu_mask, scheduler, exe, nice_value, ppid, sid, pgrp, name,
                   out, open_files, producer>>

find_scheduler ==
    /\ pc = "find_scheduler"
    /\ \E e \in LifeSteps(life, proc, i) : \E res \in sched_getscheduler(e.life, e.proc) :
         /\ life' = e.life
         /\ proc' = e.proc
         /\ errno' = ErrnoAfter(errno, res)
         /\ IF QueryVanished(res.ret, errno')
            THEN /\ not_there' = TRUE
                 /\ scheduler' = 0
                 /\ pc' = NextReader("find_scheduler")
                 /\ UNCHANGED exit_status
            ELSE IF res.ret = -1
            THEN /\ pc' = "fatal"
                 /\ exit_status' = ExitFatal
                 /\ UNCHANGED <<not_there, scheduler>>
            ELSE /\ scheduler' = res.ret
                 /\ pc' = NextReader("find_scheduler")
                 /\ UNCHANGED <<not_there, exit_status>>
         /\ Note("find_scheduler", res.outcome)
    /\ UNCHANGED <<i, limits, cpu_mask, param, exe, nice_value, ppid, sid, pgrp, name,
                   out, open_files, producer>>

\* the string find_exe returns when the link is missing
ExeSentinel == <<"ENOENT">>

\* (mutant) find_exe without its ENOENT branch
ExeMissingNever(e) == FALSE

\* find_exe: "if (errno == ENOENT)" and "if (errno == ESRCH)"
ExeMissing(e) == e = "ENOENT"
ExeVanished(e) == e = "ESRCH"

find_exe ==
    /\ pc = "find_exe"
    /\ \E e \in LifeSteps(life, proc, i) : \E res \in readlink(e.life, e.proc) :
         /\ life' = e.life
         /\ proc' = e.proc
         /\ errno' = ErrnoAfter(errno, res)
         /\ IF res.ret = -1
            THEN IF ExeMissing(errno')
                 THEN /\ exe' = ExeSentinel
                      /\ pc' = NextReader("find_exe")
                      /\ UNCHANGED <<not_there, exit_status>>
                 ELSE IF ExeVanished(errno')
                 THEN /\ not_there' = TRUE
                      /\ exe' = <<>>
                      /\ pc' = NextReader("find_exe")
                      /\ UNCHANGED exit_status
                 ELSE /\ pc' = "fatal"
                      /\ exit_status' = ExitFatal
                      /\ UNCHANGED <<not_there, exe>>
            ELSE /\ exe' = res.val
                 /\ pc' = NextReader("find_exe")
                 /\ UNCHANGED <<not_there, exit_status>>
         /\ Note("find_exe", res.outcome)
    /\ UNCHANGED <<i, limits, cpu_mask, param, scheduler, nice_value, ppid, sid,
                   pgrp, name, out, open_files, producer>>

\* (mutant) find_nice_value without "errno = 0"
NiceErrnoKept(e) == e

\* "errno = 0" before the query
NiceErrnoBefore(e) == "0"

find_nice_value ==
    /\ pc = "find_nice_value"
    /\ \E e \in LifeSteps(life, proc, i) : \E res \in getpriority(e.life, e.proc) :
         /\ life' = e.life
         /\ proc' = e.proc
         /\ errno' = ErrnoAfter(NiceErrnoBefore(errno), res)
         /\ IF errno' = "ESRCH"
            THEN /\ not_there' = TRUE
                 /\ nice_value' = 0
                 /\ pc' = NextReader("find_nice_value")
                 /\ UNCHANGED exit_status
            ELSE IF errno' # "0"
            THEN /\ pc' = "fatal"
                 /\ exit_status' = ExitFatal
                 /\ UNCHANGED <<not_there, nice_value>>
            ELSE /\ nice_value' = res.ret
                 /\ pc' = NextReader("find_nice_value")
                 /\ UNCHANGED <<not_there, exit_status>>
         /\ Note("find_nice_value", res.outcome)
    /\ UNCHANGED <<i, limits, cpu_mask, param, scheduler, exe, ppid, sid, pgrp,
                   name, out, open_files, producer>>

\* fopen failed with ENOENT
OpenVanished(outcome, e) == outcome \in {"open_enoent", "open_err"} /\ e = "ENOENT"

\* read_stat: fgets failed, ferror, errno == ESRCH
StatReadVanished(outcome, e) == outcome \in {"read_esrch", "read_err"} /\ e = "ESRCH"

\* CHECK_EQ(pid, process) of read_stat
StatSelfCheck(pid, process) == pid = process

\* (mutant) read_status without its second CHECK_EQ
StatusChecksPidOnly(pid, process, status_ppid, pp) == pid = process

\* CHECK_EQ(pid, process); CHECK_EQ(status_ppid, ppid) of read_status
StatusChecks(pid, process, status_ppid, pp) == pid = process /\ status_ppid = pp

\* main: "int ppid = 0, sid = 0; read_stat(i, &ppid, &sid, &not_there);"
read_stat ==
    /\ pc = "read_stat"
    /\ \E e \in LifeSteps(life, proc, i) : \E o \in RecordOutcomes(e.life) :
         LET st == StatParsed[e.proc]
         IN  /\ life' = LifeAfterRecord(e.life, o)
             /\ proc' = ProcAfterRecord(e.proc, o)
             /\ errno' = RecordErrno(o, errno)
             /\ IF o \in {"open_enoent", "open_err"}
                THEN \* fopen answered nullptr
                     /\ ppid' = 0 /\ sid' = 0
                     /\ UNCHANGED open_files
                     /\ IF OpenVanished(o, errno')
                        THEN /\ not_there' = TRUE
                             /\ pc' = NextReader("read_stat")
                             /\ UNCHANGED exit_status
                        ELSE /\ pc' = "fatal" /\ exit_status' = ExitFatal
                             /\ UNCHANGED not_there
                ELSE IF o \in {"read_esrch", "read_err"}
                THEN \* fgets answered nullptr with ferror set: both exits
                     \* leave the stream open
                     /\ ppid' = 0 /\ sid' = 0
                     /\ open_files' = open_files \cup {"stat"}
                     /\ IF StatReadVanished(o, errno')
                        THEN /\ not_there' = TRUE
                             /\ pc' = NextReader("read_stat")
                             /\ UNCHANGED exit_status
                        ELSE /\ pc' = "fatal" /\ exit_status' = ExitFatal
                             /\ UNCHANGED not_there
                ELSE /\ ppid' = st.ppid /\ sid' = st.sid
                     /\ UNCHANGED not_there
                     /\ IF st.threw
                        THEN \* std::stoi throws inside the scan, stream open
                             /\ pc' = "fatal" /\ exit_status' = ExitAbort
                             /\ open_files' = open_files \cup {"stat"}
                        ELSE IF o = "close_err"
                        THEN \* PCHECK(fclose) throws
                             /\ pc' = "fatal" /\ exit_status' = ExitAbort
                             /\ UNCHANGED open_files
                        ELSE IF StatTooShort(st.field)
                        THEN /\ pc' = "fatal" /\ exit_status' = ExitFatal
                             /\ UNCHANGED open_files
                        ELSE IF ~StatSelfCheck(st.pid, i)
                        THEN /\ pc' = "fatal" /\ exit_status' = ExitAbort
                             /\ UNCHANGED open_files
                        ELSE /\ pc' = NextReader("read_stat")
                             /\ UNCHANGED <<open_files, exit_status>>
             /\ Note("read_stat", o)
    /\ UNCHANGED <<i, limits, cpu_mask, param, scheduler, exe, nice_value, pgrp,
                   name, out, producer>>

\* main: "int pgrp = 0; std::string name; read_status(i, ppid, &pgrp, &name, ...)"
read_status ==
    /\ pc = "read_status"
    /\ \E e \in LifeSteps(life, proc, i) : \E o \in RecordOutcomes(e.life) :
         LET st == StatusParsed[e.proc]
         IN  /\ life' = LifeAfterRecord(e.life, o)
             /\ proc' = ProcAfterRecord(e.proc, o)
             /\ errno' = RecordErrno(o, errno)
             /\ IF o \in {"open_enoent", "open_err"}
                THEN /\ pgrp' = 0 /\ name' = <<>>
                     /\ UNCHANGED open_files
                     /\ IF OpenVanished(o, errno')
                        THEN /\ not_there' = TRUE
                             /\ pc' = NextReader("read_status")
                             /\ UNCHANGED exit_status
                        ELSE /\ pc' = "fatal" /\ exit_status' = ExitFatal
                             /\ UNCHANGED not_there
                ELSE IF o \in {"read_esrch", "read_err"}
                THEN \* fgets answered nullptr with ferror set: fatal whatever
                     \* errno is
                     /\ pgrp' = 0 /\ name' = <<>>
                     /\ open_files' = open_files \cup {"status"}
                     /\ pc' = "fatal" /\ exit_status' = ExitFatal
                     /\ UNCHANGED not_there
                ELSE /\ pgrp' = st.pgrp /\ name' = st.name
                     /\ UNCHANGED not_there
                     /\ IF st.threw
                        THEN /\ pc' = "fatal" /\ exit_status' = ExitAbort
                             /\ open_files' = open_files \cup {"status"}
                        ELSE IF o = "close_err"
                        THEN /\ pc' = "fatal" /\ exit_status' = ExitAbort
                             /\ UNCHANGED open_files
                        ELSE IF ~StatusChecks(st.pid, i, st.status_ppid, ppid)
                        THEN /\ pc' = "fatal" /\ exit_status' = ExitAbort
                             /\ UNCHANGED open_files
                        ELSE /\ pc' = NextReader("read_status")
                             /\ UNCHANGED <<open_files, exit_status>>
             /\ Note("read_status", o)
    /\ UNCHANGED <<i, limits, cpu_mask, param, scheduler, exe, nice_value, ppid,
                   sid, out, producer>>

(***************************************************************************)
(* The end of the loop body: "if (not_there) continue;" and the row        *)
(* printf; then ++i, where the iteration's locals go out of scope and the  *)
(* environment's view of the next identifier starts.                       *)
(***************************************************************************)
\* whether the body goes on to the printf
RowWanted(nt) == ~nt

print_row ==
    /\ pc = "if_not_there"
    /\ IF RowWanted(not_there)
       THEN /\ out' = Append(out,
                        RowLine(exe, name, cpu_mask_string(cpu_mask, all_cpus),
                                policy_string(scheduler), nice_value, param, i,
                                pgrp, ppid, sid))
            /\ producer' = Append(producer, i)
       ELSE UNCHANGED <<out, producer>>
    /\ pc' = "for_incr"
    /\ UNCHANGED <<i, limits, not_there, locals, open_files, errno, exit_status,
                   env, obs, calls>>

for_incr ==
    /\ pc = "for_incr"
    /\ i' = NextId(i)
    /\ pc' = "for_cond"
    /\ cpu_mask' = {} /\ param' = 0 /\ scheduler' = 0 /\ exe' = <<>>
    /\ nice_value' = 0 /\ ppid' = 0 /\ sid' = 0 /\ pgrp' = 0 /\ name' = <<>>
    /\ life' = "unused" /\ proc' = NoProc /\ obs' = <<>>
    /\ UNCHANGED <<limits, not_there, out, open_files, errno, exit_status,
                   producer, calls>>

\* (mutant) a fatal condition that is logged and then skipped over
NextLogAndContinue ==
    \/ main_header \/ find_pid_max \/ find_all_cpus \/ for_cond
    \/ find_cpu_mask \/ find_sched_param \/ find_scheduler \/ find_exe
    \/ find_nice_value \/ read_stat \/ read_status \/ print_row \/ for_incr
    \/ /\ pc = "fatal" /\ pid_max > 0
       /\ pc' = "for_incr"
       /\ exit_status' = -1
       /\ UNCHANGED <<i, limits, not_there, locals, out, open_files, errno, env,
                      producer, obs, calls>>

Next ==
    \/ main_header
    \/ find_pid_max
    \/ find_all_cpus
    \/ for_cond
    \/ find_cpu_mask
    \/ find_sched_param
    \/ find_scheduler
    \/ find_exe
    \/ find_nice_value
    \/ read_stat
    \/ read_status
    \/ print_row
    \/ for_incr

Spec == Init /\ [][Next]_vars

\* main is one sequential thread and none of its calls blocks: a statement
\* that can run does run
FairSpec == Spec /\ WF_vars(Next)

(***************************************************************************)
(* Vocabulary of the properties.                                           *)
(***************************************************************************)
\* the data rows printed so far: row k is line k + 1, after the header
RowCount == Len(producer)
Row(k) == out[k + 1]
TidOf(row) == row[7]

NoRowFor(id) == \A k \in 1..RowCount : producer[k] # id
RowsFor(id) == {k \in 1..RowCount : producer[k] = id}

\* the iteration of identifier i has printed its row
RowThisIteration == pc = "for_incr" /\ RowCount > 0 /\ producer[RowCount] = i

Outcome(k) == obs[k].outcome

\* the reader answered "no such process": ESRCH from a query, ENOENT from an open
Reports(k) == Outcome(k) \in {"esrch", "open_enoent"}
\* what a reader is answered for an identifier that names no process
Absent(k) == Outcome(k) \in {"esrch", "open_enoent", "enoent"}
AbsentFrom(k) == Reports(k) /\ \A j \in (k + 1)..Len(obs) : Absent(j)

AllOk == \A k \in 1..Len(obs) : Outcome(k) = "ok"
StatRead == Len(obs) >= 6 /\ Outcome(6) = "ok"
StatusRead == Len(obs) >= 7 /\ Outcome(7) = "ok"

\* the two records of a process agree with each other and with identifier id
SelfMatches(p, id) == p.stat.pid = id /\ p.status.pid = id
ParentMatches(p) == StatField(p.stat, 3) = FormatD(p.status.ppid)

RECURSIVE ProbeLog(_)
\* the reader calls of one full probe sequence per identifier of ids, in order
ProbeLog(ids) ==
    IF ids = <<>> THEN <<>>
    ELSE [r \in 1..Len(Readers) |-> <<Head(ids), Readers[r]>>] \o ProbeLog(Tail(ids))

IsPrefix(s, t) == Len(s) <= Len(t) /\ SubSeq(t, 1, Len(s)) = s

(***************************************************************************)
(* C1.  If a reader reports no-such-process for identifier i and every     *)
(* later reader of i's sequence finds the identifier absent too, the       *)
(* program has not terminated fatally and no row is printed for i; so for  *)
(* an identifier that exits between a successful affinity query and the    *)
(* scheduling-parameter query.                                             *)
(***************************************************************************)
C1_VanishedNoRow ==
    \A k \in 1..Len(obs) :
        AbsentFrom(k) => /\ pc # "fatal"
                         /\ exit_status = -1
                         /\ NoRowFor(i)

C1_Witness ==
    /\ pc = "for_incr"
    /\ Len(obs) = 7
    /\ Outcome(1) = "ok"
    /\ AbsentFrom(2)
    /\ NoRowFor(i)

(***************************************************************************)
(* C2.  Whenever the program has moved on from a reader without a fatal    *)
(* error, no file is open.                                                 *)
(***************************************************************************)
C2_NoFileLeftOpen == pc # "fatal" => open_files = {}

(***************************************************************************)
(* C3.  A row is printed for i only when field 0 of the statistics record  *)
(* and Pid of the status record equal i and PPid of the status record      *)
(* equals field 3 of the statistics record; once the records are read, a   *)
(* failing equality has ended the program fatally, with no row for i.      *)
(***************************************************************************)
C3_RecordsCrossChecked ==
    /\ RowThisIteration =>
         life = "present" /\ SelfMatches(proc, i) /\ ParentMatches(proc)
    /\ (life = "present" /\ StatRead /\ proc.stat.pid # i) =>
         pc = "fatal" /\ NoRowFor(i)
    /\ (life = "present" /\ StatRead /\ StatusRead
          /\ ~(SelfMatches(proc, i) /\ ParentMatches(proc))) =>
         pc = "fatal" /\ NoRowFor(i)

C3_Witness ==
    /\ pc = "fatal"
    /\ life = "present"
    /\ StatRead /\ StatusRead
    /\ SelfMatches(proc, i)
    /\ ~ParentMatches(proc)
    /\ ~not_there

(***************************************************************************)
(* C4.  As claimed: a finished scan has run the probe sequence once for    *)
(* each identifier of 1..pid_max, in ascending order.                      *)
(***************************************************************************)
C4_ScansOneToMax ==
    pc = "done" => calls = ProbeLog([k \in 1..pid_max |-> k])

(***************************************************************************)
(* C4, amended.  The reader calls made so far are the start of, and after  *)
(* a finished scan are exactly, one probe sequence for each identifier of  *)
(* 0..pid_max-1 in ascending order.                                        *)
(***************************************************************************)
C4_ScansZeroToMaxMinusOne ==
    LET all == ProbeLog([k \in 1..pid_max |-> k - 1])
    IN  /\ IsPrefix(calls, all)
        /\ pc = "done" => calls = all

C4_Witness ==
    /\ pc = "done"
    /\ pid_max = MaxPidMax
    /\ Len(calls) = 7 * MaxPidMax

(***************************************************************************)
(* C5.  A reader that is answered no-such-process or not-found, at a       *)
(* query, at an open or at the read of an opened record, sets the vanished *)
(* flag and returns: the program is not ended by it.                       *)
(***************************************************************************)
C5_AbsenceNeverFatal ==
    (Len(obs) > 0 /\ Outcome(Len(obs)) \in {"esrch", "open_enoent", "read_esrch"})
        => pc # "fatal" /\ not_there

(***************************************************************************)
(* C6.  As claimed: every row's tid is the identifier that produced it,    *)
(* which lies in 1..pid_max; identifier 0 gets no row.                     *)
(***************************************************************************)
C6_TidInOneToMax ==
    \A k \in 1..RowCount :
        /\ TidOf(Row(k)) = FormatD(producer[k])
        /\ 0 < producer[k] /\ producer[k] <= pid_max

(***************************************************************************)
(* C6, amended.  Every row's tid is the identifier that produced it, which *)
(* lies in 0..pid_max-1.                                                   *)
(***************************************************************************)
C6_TidInZeroToMaxMinusOne ==
    \A k \in 1..RowCount :
        /\ TidOf(Row(k)) = FormatD(producer[k])
        /\ 0 <= producer[k] /\ producer[k] < pid_max

C6_Witness ==
    \E k \in 1..RowCount : producer[k] = 0 /\ TidOf(Row(k)) = <<"0">>

\* the statistics record holds the fields the program takes from it
StatComplete(p) == StatFieldCount(p.stat) >= 5

\* the row the records and answers of process p call for under identifier id
ExpectedRow(p, id) ==
    << IF p.has_exe THEN p.exe ELSE ExeSentinel,
       p.status.name,
       IF p.mask = all_cpus THEN <<"all">> ELSE <<"???">>,
       policy_string(p.policy),
       FormatD(p.nice), FormatD(p.prio), FormatD(id),
       FormatD(p.status.tgid), FormatD(p.status.ppid), StatField(p.stat, 4) >>

\* /bin/init,init,all,OTHER,0,0,1,1,0,1
ScenarioRow ==
    << <<"/bin/init">>, InitComm, <<"all">>, <<"OTHER">>, <<"0">>, <<"0">>,
       <<"1">>, <<"1">>, <<"0">>, <<"1">> >>

Probing == pc \in {"find_cpu_mask", "find_sched_param", "find_scheduler",
                   "find_exe", "find_nice_value", "read_stat", "read_status",
                   "if_not_there"}

(***************************************************************************)
(* C7.  An identifier held by a live process whose probes all succeed and  *)
(* whose records are complete and consistent does not end the program      *)
(* fatally and, once its probe sequence is over, has exactly one row.      *)
(***************************************************************************)
C7_LiveGetsOneRow ==
    (/\ life = "present"
     /\ Len(obs) > 0
     /\ AllOk
     /\ StatComplete(proc)
     /\ SelfMatches(proc, i)
     /\ ParentMatches(proc))
        => /\ pc # "fatal"
           /\ pc = "for_incr" => Cardinality(RowsFor(i)) = 1

(***************************************************************************)
(* C8.  A printed row holds, in order: the executable link target or the   *)
(* no-executable sentinel, the Name of the status record, the affinity     *)
(* label, the policy label, the niceness, the scheduling priority, i, the  *)
(* Tgid of the status record, the parent id and field 4 of the statistics  *)
(* record; identifier 1 as init on a two-CPU machine gives the row         *)
(* /bin/init,init,all,OTHER,0,0,1,1,0,1.                                   *)
(***************************************************************************)
C8_RowFields ==
    RowThisIteration =>
        /\ life = "present"
        /\ Row(RowCount) = ExpectedRow(proc, i)
        /\ (i = 1 /\ proc = InitProc(1) /\ all_cpus = {0, 1}) =>
               Row(RowCount) = ScenarioRow

(***************************************************************************)
(* C9.  Every printed row has as many fields as the header, eleven.        *)
(***************************************************************************)
C9_RowMatchesHeader ==
    \A k \in 1..RowCount : Len(Row(k)) = Len(out[1]) /\ Len(Row(k)) = 11

(***************************************************************************)
(* C10.  The tid values of the rows are strictly increasing in output      *)
(* order, so an identifier has at most one row, and while identifier i is  *)
(* being probed every row printed so far belongs to a smaller identifier.  *)
(***************************************************************************)
C10_RowsInScanOrder ==
    /\ \A k \in 1..RowCount : stoi(TidOf(Row(k))) = [ok |-> TRUE, val |-> producer[k]]
    /\ \A k, l \in 1..RowCount :
         k < l => stoi(TidOf(Row(k))).val < stoi(TidOf(Row(l))).val
    /\ \A k \in 1..RowCount : producer[k] <= i
    /\ Probing => \A k \in 1..RowCount : producer[k] < i
    /\ \A n \in 1..Len(calls) : \A k \in 1..RowCount :
         calls[n][1] > producer[k] =>
             Len(SelectSeq(SubSeq(calls, 1, n), LAMBDA c : c[1] = producer[k])) = 7

C10_Witness ==
    /\ RowCount >= 2
    /\ producer[1] < producer[2]
    /\ pc = "done"

\* the row printed by this iteration and its fields
ThisRow == Row(RowCount)
ExeOf(row) == row[1]
MaskLabelOf(row) == row[3]
PolicyLabelOf(row) == row[4]
NiceOf(row) == row[5]
SidOf(row) == row[10]

\* some reader before reader k was answered no-such-process, which sets the flag
FlagSetBefore(k) == \E j \in 1..(k - 1) : Outcome(j) \in {"esrch", "open_enoent"}

\* the state right after reader k has returned for a live process
JustAfterLive(k) == Len(obs) = k /\ life = "present"

(***************************************************************************)
(* C11.  The full CPU set computed at startup is {0..n-1}; a printed row's *)
(* mask label is "all" exactly when the affinity set of the process equals *)
(* it, and "???" for every other set: proper subsets, the empty set, sets  *)
(* with a CPU outside 0..n-1.                                              *)
(***************************************************************************)
C11_MaskLabel ==
    /\ pc \notin {"main", "find_pid_max", "find_all_cpus", "fatal"} =>
         /\ all_cpus = 0..(Cardinality(all_cpus) - 1)
         /\ all_cpus # {}
    /\ \A m \in SUBSET (0..MaxNProc) :
         cpu_mask_string(m, all_cpus) = IF m = all_cpus THEN <<"all">> ELSE <<"???">>
    /\ RowThisIteration =>
         /\ life = "present"
         /\ MaskLabelOf(ThisRow) = <<"all">> <=> proc.mask = all_cpus
         /\ MaskLabelOf(ThisRow) = <<"???">> <=> proc.mask # all_cpus

C11_Witness ==
    /\ RowThisIteration
    /\ proc.mask # {} /\ proc.mask \subseteq all_cpus /\ proc.mask # all_cpus
    /\ MaskLabelOf(ThisRow) = <<"???">>

(***************************************************************************)
(* C12.  When the executable-link query fails with no-such-file, find_exe  *)
(* does not set the vanished flag and does not end the program, and if     *)
(* every probe succeeds a row is printed whose exe is the sentinel; when   *)
(* it fails with no-such-process the identifier is marked vanished; any    *)
(* other failure is fatal.                                                 *)
(***************************************************************************)
C12_ExeLink ==
    /\ (Len(obs) = 4 /\ (Outcome(4) = "enoent"
                          \/ (Outcome(4) = "ok" /\ life = "present" /\ ~proc.has_exe))) =>
         /\ pc = "find_nice_value"
         /\ exe = ExeSentinel
         /\ not_there = FlagSetBefore(4)
    /\ (Len(obs) = 7 /\ AllOk /\ life = "present" /\ ~proc.has_exe
          /\ pc = "for_incr") =>
         RowThisIteration /\ ExeOf(ThisRow) = ExeSentinel
    /\ (Len(obs) >= 4 /\ Outcome(4) = "esrch") => not_there /\ NoRowFor(i)
    /\ (Len(obs) = 4 /\ Outcome(4) = "esrch") => pc = "find_nice_value"
    /\ (Len(obs) >= 4 /\ Outcome(4) = "err") =>
         pc = "fatal" /\ exit_status = ExitFatal /\ Len(obs) = 4

C12_Witness ==
    /\ RowThisIteration
    /\ ~proc.has_exe
    /\ ExeOf(ThisRow) = <<"ENOENT">>

(***************************************************************************)
(* C13.  The six policies the program knows have six different labels,     *)
(* none of them the unknown label, and every other value has the unknown   *)
(* label; a policy query answered with such a value neither ends the       *)
(* program nor sets the vanished flag, and the row of the process carries  *)
(* the label of its policy.                                                *)
(***************************************************************************)
KnownPolicies == {SCHED_OTHER, SCHED_BATCH, SCHED_IDLE, SCHED_FIFO, SCHED_RR,
                  SCHED_DEADLINE}

C13_PolicyLabel ==
    /\ \A p, q \in KnownPolicies : p # q => policy_string(p) # policy_string(q)
    /\ \A p \in KnownPolicies : policy_string(p) # <<"???">>
    /\ \A p \in (0..(PolicyUnnamed + 1)) \ KnownPolicies : policy_string(p) = <<"???">>
    /\ (JustAfterLive(3) /\ Outcome(3) = "ok" /\ proc.policy \notin KnownPolicies) =>
         /\ pc = "find_exe"
         /\ scheduler = proc.policy
         /\ not_there = FlagSetBefore(3)
    /\ RowThisIteration =>
         /\ life = "present"
         /\ PolicyLabelOf(ThisRow) = policy_string(proc.policy)
         /\ proc.policy \notin KnownPolicies => PolicyLabelOf(ThisRow) = <<"???">>
         /\ proc.policy = SCHED_RR => PolicyLabelOf(ThisRow) = <<"RR">>

C13_Witness ==
    /\ RowThisIteration
    /\ proc.policy \notin KnownPolicies
    /\ PolicyLabelOf(ThisRow) = <<"???">>

\* every reader has been called once for every identifier the loop ranges over
FullRangeProbed ==
    /\ Len(calls) = Len(Readers) * pid_max
    /\ \A id \in 0..(pid_max - 1) : \A r \in 1..Len(Readers) :
         \E n \in 1..Len(calls) : calls[n] = <<id, Readers[r]>>

Terminated == pc \in {"done", "fatal"}

(***************************************************************************)
(* C14.  The program terminates: it ends either with status 0, and then    *)
(* only after every reader has run for every identifier of the range, or   *)
(* with a non-zero status after a fatal condition; while it runs it has no *)
(* exit status.                                                            *)
(***************************************************************************)
C14_Terminates ==
    /\ [](pc = "done" => exit_status = 0 /\ FullRangeProbed)
    /\ [](exit_status = 0 => pc = "done")
    /\ [](pc = "fatal" => exit_status \in {ExitFatal, ExitAbort} /\ exit_status # 0)
    /\ [](~Terminated => exit_status = -1)
    /\ <>Terminated

C14_Witness ==
    /\ pc = "done"
    /\ exit_status = 0
    /\ pid_max = MaxPidMax
    /\ RowCount = 0
    /\ FullRangeProbed

(***************************************************************************)
(* C15.  A fatal condition stops the program where it is raised: from then *)
(* on no reader is called and no line is printed, the last reader call is  *)
(* the one that raised it, and the identifier being probed has no row.     *)
(***************************************************************************)
C15_FatalStops ==
    /\ [](pc = "fatal" =>
            /\ exit_status # -1
            /\ NoRowFor(i)
            /\ \A n \in 1..Len(calls) : calls[n][1] <= i
            /\ obs # <<>> =>
                 calls[Len(calls)] = <<i, Readers[Len(obs)]>>)
    /\ [][pc = "fatal" => (pc' = "fatal" /\ calls' = calls /\ out' = out)]_vars

C15_Witness ==
    /\ pc = "fatal"
    /\ i = 0 /\ pid_max > 1
    /\ Len(obs) = 3
    /\ Len(calls) = 3

\* a reader of this iteration has set the vanished flag
FlagWasSet ==
    \E j \in 1..Len(obs) :
        \/ Outcome(j) \in {"esrch", "open_enoent"}
        \/ j = 6 /\ Outcome(j) = "read_esrch"

\* the program was ended by a CHECK_EQ on a record that was opened, read,
\* scanned and closed without error
ConsistencyFailure ==
    /\ pc = "fatal"
    /\ exit_status = ExitAbort
    /\ Len(obs) \in {6, 7}
    /\ Outcome(Len(obs)) = "ok"
    /\ life = "present"
    /\ IF Len(obs) = 6 THEN ~StatParsed[proc].threw ELSE ~StatusParsed[proc].threw

(***************************************************************************)
(* C16.  Once a reader has set the vanished flag for identifier i, the     *)
(* flag stays set, no later reader of i ends the program over a record     *)
(* that disagrees with i or with the parent id, and i gets no row.         *)
(***************************************************************************)
C16_VanishedDisregarded ==
    FlagWasSet => /\ not_there
                  /\ ~ConsistencyFailure
                  /\ NoRowFor(i)

(***************************************************************************)
(* C17.  For each identifier the readers are called in the order           *)
(* find_cpu_mask, find_sched_param, find_scheduler, find_exe,              *)
(* find_nice_value, read_stat, read_status, each once; a reader that       *)
(* returns, with the vanished flag set or not, is followed by the next     *)
(* one, and whether to print is decided only after read_status returned.   *)
(***************************************************************************)
C17_AllReadersInOrder ==
    /\ [](/\ Len(obs) <= Len(Readers)
          /\ \A k \in 1..Len(obs) : obs[k].reader = Readers[k]
          /\ Len(calls) >= Len(obs)
          /\ \A k \in 1..Len(obs) :
               calls[Len(calls) - Len(obs) + k] = <<i, Readers[k]>>)
    /\ [](pc \in {"find_cpu_mask", "find_sched_param", "find_scheduler", "find_exe",
                  "find_nice_value", "read_stat", "read_status"}
            => pc = Readers[Len(obs) + 1])
    /\ [](pc \in {"if_not_there", "for_incr"} => Len(obs) = Len(Readers))
    /\ [][RowCount' # RowCount =>
            /\ pc = "if_not_there"
            /\ Len(obs) = Len(Readers)
            /\ ~not_there]_vars

C17_Witness ==
    /\ pc = "for_incr"
    /\ Len(obs) = 7
    /\ Outcome(1) = "esrch"
    /\ Outcome(7) = "ok"
    /\ not_there

\* read_stat has opened, read and closed the record of the live process
StatReadLive == Len(obs) >= 6 /\ Outcome(6) = "ok" /\ life = "present"

(***************************************************************************)
(* C18.  A statistics record from which fewer than five fields are parsed  *)
(* ends the program fatally, and the sid of every printed row is field 4   *)
(* of the record.                                                          *)
(***************************************************************************)
C18_ShortStatFatal ==
    /\ (StatReadLive /\ StatParsed[proc].field < 5) => pc = "fatal"
    /\ RowThisIteration =>
         /\ life = "present"
         /\ StatParsed[proc].field >= 5
         /\ SidOf(ThisRow) = StatField(proc.stat, 4)

(***************************************************************************)
(* C19.  Whatever spaces and parentheses the command name holds, the scan  *)
(* of a statistics record gives the same field count, self id, parent id   *)
(* and session id as the scan of the same record with a plain command      *)
(* name, and these are fields 0, 3 and 4 of the record.                    *)
(***************************************************************************)
C19_CommOpaque ==
    (StatReadLive /\ StatFieldCount(proc.stat) >= 6) =>
        LET st    == StatParsed[proc]
            plain == ParseStat(StatText([proc.stat EXCEPT !.comm = InitComm]))
        IN  /\ st.threw = plain.threw
            /\ st.field = plain.field
            /\ st.pid = plain.pid /\ st.ppid = plain.ppid /\ st.sid = plain.sid
            /\ ~st.threw
            /\ FormatD(st.pid) = StatField(proc.stat, 0)
            /\ FormatD(st.ppid) = StatField(proc.stat, 3)
            /\ FormatD(st.sid) = StatField(proc.stat, 4)

(***************************************************************************)
(* C20.  find_nice_value decides from errno as the query leaves it after   *)
(* being cleared: errno clear means the returned value, negative or not,   *)
(* is the niceness and the vanished flag is left as it was; ESRCH sets the *)
(* flag; any other value is fatal.  What errno held before the reader was  *)
(* called makes no difference.                                             *)
(***************************************************************************)
C20_Niceness ==
    /\ (JustAfterLive(5) /\ Outcome(5) = "ok") =>
         /\ pc = "read_stat"
         /\ nice_value = proc.nice
         /\ not_there = FlagSetBefore(5)
         /\ errno = "0"
    /\ (Len(obs) >= 5 /\ Outcome(5) = "esrch") =>
         /\ not_there
         /\ NoRowFor(i)
         /\ Len(obs) = 5 => pc = "read_stat"
    /\ (Len(obs) >= 5 /\ Outcome(5) = "err") =>
         pc = "fatal" /\ exit_status = ExitFatal /\ Len(obs) = 5
    /\ RowThisIteration =>
         life = "present" /\ NiceOf(ThisRow) = FormatD(proc.nice)

C20_Witness ==
    /\ JustAfterLive(5)
    /\ Outcome(1) = "esrch"
    /\ Outcome(5) = "ok"
    /\ ~proc.has_exe
    /\ nice_value = -1
    /\ pc = "read_stat"

=============================================================================
